---- MODULE Spec2Model ----
(***************************************************************************)
(* WD-Bridge: the remote session and transfer engine (api.js, kept in      *)
(* src/unnamed/part_000) as an event-driven state machine.  One action per *)
(* API entry point and per network callback; the position of the single    *)
(* logical task is pc.                                                     *)
(***************************************************************************)
EXTENDS Integers, Sequences, FiniteSets, TLC

VARIABLES
    attemptBound,  \* environment: does the free identifier `attempt` (line 704) resolve on the global object
    remotePlan,    \* environment: 0, or k when the remote fails attempts 1..k-1 and serves attempt k
    folderBody,    \* environment: the body the remote answers a listing of the current folder with
    pathStack,     \* let pathStack = []
    tokens,        \* tokens.auth; NoToken while the property is absent
    creds,         \* creds.user / creds.pass as one credential pair; NoCreds while {}
    pc,            \* position of the task: "idle", a pending request, or a terminal position
    op,            \* the high-level operation in progress and its argument
    frames,        \* tryCounter of every live retryLimited activation, innermost last
    opRes,         \* the value the abstracted function resolved with
    callResult,    \* how the outermost API call ended
    crash,         \* the uncaught exception that ended the process, or "none"
    loginCaller,   \* who awaits the pending login: "shell" or "authRetry"
    authResult,    \* value of the last completed shell authenticate(): "none", "true", "false"
    authToken,     \* the authToken argument the pending primitive was called with
    subPath,       \* the subPath argument the activation resolved: its currentPath
    net,           \* outcome of the last network exchange
    prim,          \* the primitive that handled it
    primRes,       \* the record that primitive delivered
    invocations,   \* activations of the abstracted function in the current API call
    reauthed,      \* authRetry has run in the current API call
    expiredToken,  \* the token carried by the call whose 401 started the last authRetry
    granted,       \* result of that authRetry's authenticate(): "none" while pending
    authSince,     \* authenticate() calls made by authRetry since the last activation
    pending401,    \* a primitive of the last activation answered 401
    uplOffset,     \* getFileContent: currentOffset
    uplPuts,       \* chunk PUTs issued in the current upload session
    uplOk,         \* chunk PUTs of the session that were answered without error
    uplDone,       \* chunk PUTs of the session issued with done=true
    uplEvents,     \* progressCallback calls made in the current upload session
    uplLastEvent,  \* the last progress event the caller of uploadFile received in this call
    uplFds,        \* descriptors the current upload attempt opened and has not closed
    uplLog,        \* offset and payload length of every chunk PUT of the session
    dwlTotal,      \* dwl: totalSize
    dwlOffset,     \* dwl: currentOffset
    dstLen,        \* length of the download destination file
    dstExists,     \* the download destination file exists
    dstEarlier,    \* bytes the streams of earlier attempts of this call appended to it
    dwlEvents,     \* progress events of the current download attempt
    dwlLastEvent,  \* the last of them, as the caller of downloadFile received it
    stale,         \* download streams that answered 401 and have not ended yet
    tmode,         \* the tree transfer the shell runs: "none", "upload", "download"
    tstate,        \* its position: "none", "running", "finished", "rejected", "hung"
    troot,         \* the folder it transfers
    walk,          \* activations of uploadFolder / downloadFolder, innermost last
    saved,         \* currentFolderID, saved by the transfer before it navigates
    before,        \* the path stack when the transfer was called
    tlog,          \* remote operations the transfer has awaited so far
    cwdCache,      \* the shell's cwdCache: "null", or the folder whose listing it holds
    shpc,          \* the shell: "prompt", "cd" inside a multi-segment cd, "ended"
    pathParts,     \* the segments of the last multi-segment cd
    iterator,      \* the index of its next segment
    cdStart,       \* the path stack when that command was entered
    missed,        \* a segment of that command was not found
    hist,          \* path-stack API calls made so far
    ret            \* value returned by the last path-stack API call

vars == <<attemptBound, remotePlan, folderBody, pathStack, tokens, creds, pc, op, frames, opRes,
          callResult, crash, loginCaller, authResult, authToken, subPath, net, prim, primRes,
          invocations, reauthed, expiredToken, granted, authSince, pending401, uplOffset, uplPuts,
          uplOk, uplDone, uplEvents, uplLastEvent, uplFds, uplLog, dstExists, dstEarlier, dwlEvents,
          dwlLastEvent, dwlTotal, dwlOffset, dstLen, stale, tmode, tstate, troot, walk,
          saved, before, tlog, cwdCache, shpc, pathParts, iterator, cdStart,
          missed, hist, ret>>

envVars == <<attemptBound, remotePlan, folderBody>>
sessionVars == <<tokens, creds>>
ctlVars == <<pc, op, frames, opRes, callResult, crash, loginCaller, authResult, authToken, subPath>>
netVars == <<net, prim, primRes>>
countVars == <<invocations, reauthed, expiredToken, granted, authSince, pending401>>
uplVars == <<uplOffset, uplPuts, uplOk, uplDone, uplEvents, uplLastEvent, uplFds, uplLog>>
dwlObs == <<dstExists, dstEarlier, dwlEvents, dwlLastEvent>>
dwlVars == <<dwlTotal, dwlOffset, dstLen, stale, dwlObs>>
xferVars == <<uplVars, dwlVars>>
stackVars == <<pathStack, hist, ret>>
treeVars == <<tmode, tstate, troot, walk, saved, before, tlog>>
shellVars == <<cwdCache, shpc, pathParts, iterator, cdStart, missed>>

-----------------------------------------------------------------------------
(* Values *)

UNDEFINED == "undefined"
NoToken == 0
NoCreds == "none"
NoBody == "none"

\* Bounds of the model.
MaxDepth == 3          \* longest path stack explored
MaxHist == 4           \* longest sequence of path-stack calls explored
MaxRemove == 2         \* largest removeCount explored
MaxInvocations == 11   \* activations of the abstracted function explored per API call
MaxNav == 1            \* deepest folder the shell navigates to between API calls
MaxNest == 2           \* nested retryLimited activations explored (upload replay)

FolderIds == {"f1", "f2"}
IdTokens == {1, 2}                 \* id_token values the identity provider issues
Credentials == {"alice", "mallory"}
ValidCredentials == {"alice"}      \* pairs the identity provider accepts

-----------------------------------------------------------------------------
(* Virtual path stack, lines 435-474 *)

\* An enterDirectory without the test for undefined
enterDirectoryUnguarded(ps, folderID) == Append(ps, folderID)

\* enterDirectory(folderID)
enterDirectory(ps, folderID) ==
    IF folderID = UNDEFINED THEN ps ELSE Append(ps, folderID)

\* setPath(path)
setPath(ps, path) == enterDirectory(<<>>, path)

\* enterParentDirectory(): the stack afterwards, and the value returned
enterParentDirectory(ps) ==
    IF Len(ps) > 0 THEN [stack |-> SubSeq(ps, 1, Len(ps) - 1), ret |-> "true"]
    ELSE [stack |-> ps, ret |-> "false"]

\* A getCurrentFolder that reads the oldest entry instead of the newest
getCurrentFolderOldest(ps) ==
    IF Len(ps) > 0 THEN ps[1] ELSE UNDEFINED

\* getCurrentFolder()
getCurrentFolder(ps) ==
    IF Len(ps) > 0 THEN ps[Len(ps)] ELSE UNDEFINED

\* removePathStackEntries(removeCount): the for loop, i = 0 .. removeCount-1
RECURSIVE removeLoop(_, _, _)
removeLoop(ps, i, removeCount) ==
    IF i < removeCount
    THEN LET r == enterParentDirectory(ps)
         IN IF r.ret = "false" THEN ps ELSE removeLoop(r.stack, i + 1, removeCount)
    ELSE ps

\* A removePathStackEntries that removes one entry too many
removePathStackEntriesOneMore(ps, removeCount) == removeLoop(ps, 0, removeCount + 1)

removePathStackEntries(ps, removeCount) == removeLoop(ps, 0, removeCount)

\* A current path read from the bottom of the stack instead of the top
currentPathOldest(ps) == IF Len(ps) > 0 THEN ps[1] ELSE "root"

\* const currentPath = pathStack.length > 0 ? pathStack[pathStack.length - 1] : 'root'
currentPath(ps) == IF Len(ps) > 0 THEN ps[Len(ps)] ELSE "root"

-----------------------------------------------------------------------------
(* Path-stack API calls, as the shell or a tree transfer makes them *)

StackCall(call, id, n) == [call |-> call, id |-> id, n |-> n]

EnterDirectory(id) ==
    /\ pc = "idle"
    /\ Len(pathStack) < MaxDepth
    /\ Len(hist) < MaxHist
    /\ pathStack' = enterDirectory(pathStack, id)
    /\ hist' = Append(hist, StackCall("enter", id, 0))
    /\ ret' = UNDEFINED

EnterParentDirectory ==
    /\ pc = "idle"
    /\ Len(hist) < MaxHist
    /\ pathStack' = enterParentDirectory(pathStack).stack
    /\ hist' = Append(hist, StackCall("enterParent", UNDEFINED, 0))
    /\ ret' = enterParentDirectory(pathStack).ret

RemovePathStackEntries(n) ==
    /\ pc = "idle"
    /\ Len(hist) < MaxHist
    /\ pathStack' = removePathStackEntries(pathStack, n)
    /\ hist' = Append(hist, StackCall("truncate", UNDEFINED, n))
    /\ ret' = UNDEFINED

GetCurrentFolder ==
    /\ pc = "idle"
    /\ Len(hist) < MaxHist
    /\ pathStack' = pathStack
    /\ hist' = Append(hist, StackCall("currentFolder", UNDEFINED, 0))
    /\ ret' = getCurrentFolder(pathStack)

StackEnter ==
    /\ \E id \in FolderIds \cup {UNDEFINED} : EnterDirectory(id)
    /\ UNCHANGED <<envVars, sessionVars, ctlVars, netVars, countVars, xferVars>>
    /\ UNCHANGED <<treeVars, shellVars>>

StackEnterParent ==
    /\ EnterParentDirectory
    /\ UNCHANGED <<envVars, sessionVars, ctlVars, netVars, countVars, xferVars>>
    /\ UNCHANGED <<treeVars, shellVars>>

StackTruncate ==
    /\ \E n \in 0..MaxRemove : RemovePathStackEntries(n)
    /\ UNCHANGED <<envVars, sessionVars, ctlVars, netVars, countVars, xferVars>>
    /\ UNCHANGED <<treeVars, shellVars>>

StackCurrentFolder ==
    /\ GetCurrentFolder
    /\ UNCHANGED <<envVars, sessionVars, ctlVars, netVars, countVars, xferVars>>
    /\ UNCHANGED <<treeVars, shellVars>>

\* Returning to the root folder with what module.exports offers (setPath is
\* not exported): index.js, `cd /` calls bridge.enterDirectory('root')
StackCdRoot ==
    /\ EnterDirectory("root")
    /\ UNCHANGED <<envVars, sessionVars, ctlVars, netVars, countVars, xferVars>>
    /\ UNCHANGED <<treeVars, shellVars>>

-----------------------------------------------------------------------------
(* Initial state: the module has just been loaded *)

NoRes == [success |-> FALSE]
NoOp == [name |-> "none", file |-> 0]
NoEvent == [offset |-> -1, percent |-> -1]
NoResult == [kind |-> "none", val |-> UNDEFINED, error |-> "none", action |-> "none"]

Init ==
    /\ attemptBound \in BOOLEAN
    /\ remotePlan = 0
    /\ folderBody = NoBody
    /\ pathStack = <<>>
    /\ tokens = NoToken
    /\ creds = NoCreds
    /\ pc = "idle"
    /\ op = NoOp
    /\ frames = <<>>
    /\ opRes = NoRes
    /\ callResult = NoResult
    /\ crash = "none"
    /\ loginCaller = "none"
    /\ authResult = "none"
    /\ authToken = NoToken
    /\ subPath = "none"
    /\ net = "none"
    /\ prim = "none"
    /\ primRes = NoRes
    /\ invocations = 0
    /\ reauthed = FALSE
    /\ expiredToken = NoToken
    /\ granted = "none"
    /\ authSince = 0
    /\ pending401 = FALSE
    /\ uplOffset = 0
    /\ uplPuts = 0
    /\ uplOk = 0
    /\ uplDone = 0
    /\ uplEvents = 0
    /\ uplLastEvent = NoEvent
    /\ uplFds = 0
    /\ uplLog = <<>>
    /\ dwlTotal = 0
    /\ dwlOffset = 0
    /\ dstLen = 0
    /\ dstExists = FALSE
    /\ dstEarlier = 0
    /\ dwlEvents = 0
    /\ dwlLastEvent = NoEvent
    /\ stale = 0
    /\ tmode = "none"
    /\ tstate = "none"
    /\ troot = "none"
    /\ walk = <<>>
    /\ saved = UNDEFINED
    /\ before = <<>>
    /\ tlog = <<>>
    /\ cwdCache = "null"
    /\ shpc = "prompt"
    /\ pathParts = <<>>
    /\ iterator = 0
    /\ cdStart = <<>>
    /\ missed = FALSE
    /\ hist = <<>>
    /\ ret = UNDEFINED

NextStack ==
    \/ StackEnter
    \/ StackEnterParent
    \/ StackTruncate
    \/ StackCurrentFolder
    \/ StackCdRoot

SpecStack == Init /\ [][NextStack]_vars

-----------------------------------------------------------------------------
(* Result records of the primitives *)

tryLimit == 10        \* retryLimited(10, ...)
bufferSize == 20480   \* getFileContent: block size

Success(r) == "success" \in DOMAIN r /\ r.success

\* { success: false, error: undefined, session: false }
SessionExpired == [success |-> FALSE, error |-> UNDEFINED, session |-> FALSE]

\* { sucess: false, error: undefined, session: false }   (getFileSize, dwl)
SessionExpiredNoSuccess == [sucess |-> FALSE, error |-> UNDEFINED, session |-> FALSE]

\* { success: false, error: error, session: true }
Failed == [success |-> FALSE, error |-> "error", session |-> TRUE]

\* { success: true, error: undefined, session: true, result: ... }
Succeeded(result) ==
    [success |-> TRUE, error |-> UNDEFINED, session |-> TRUE, result |-> result]

\* What a primitive's callback does with a network outcome: the record it
\* delivers, or the exception it throws (an exception thrown in a callback is
\* uncaught: the promise is never settled and the process ends).
Delivered(r) == [thrown |-> "none", rec |-> r]
Thrown(e) == [thrown |-> e, rec |-> NoRes]

\* Outcomes of a request made with the `request` module: callback(error, response, body)
RequestOutcomes == {"ok", "401", "errNoResp", "errResp"}

\* Outcomes of the batch request made with https.request
BatchOutcomes == {"200", "other", "401", "streamError", "reqError"}

\* The branch common to login, ls, mkdir, getFileSize, startUpload:
\*   if (response.statusCode === 401) ... ; if (error) ... ; success
requestCallback(o, expired, ok) ==
    IF o = "errNoResp" THEN Thrown("TypeError")       \* response is undefined
    ELSE IF o = "401" THEN Delivered(expired)
    ELSE IF o = "errResp" THEN Delivered(Failed)
    ELSE Delivered(ok)

\* Bodies of a listing answer: no files field, an empty files array, entries
ListBodies == {"{}", "{files:[]}", "{files:[e1,e2]}"}

\* ls, lines 102-113: JSON.parse(body), the test for obj.files, and the map
parseListing(body) ==
    IF body = "{}" THEN "[]"
    ELSE IF body = "{files:[]}" THEN "[]"
    ELSE "entries"

\* ls(authToken, subPath), lines 87-117
ls(o, body) == requestCallback(o, SessionExpired, Succeeded(parseListing(body)))

\* mkdir(authToken, subPath, folderName), lines 125-155
mkdir(o, newId) == requestCallback(o, SessionExpired, Succeeded(newId))

\* multipartMixed(mpData, auth), lines 162-204
multipartMixed(o) ==
    IF o = "reqError" THEN Thrown("UnhandledErrorEvent")   \* req has no 'error' listener
    ELSE IF o = "401" THEN Delivered(SessionExpired)
    ELSE IF o = "streamError" THEN Delivered(Failed)
    ELSE Delivered([success |-> TRUE, error |-> UNDEFINED, session |-> TRUE,
                    status |-> o, content |-> ""])

\* An rm that reports success for every status of the batch answer
rmResultAnyStatus(result) ==
    IF ~result.success THEN result
    ELSE [success |-> TRUE, error |-> UNDEFINED, session |-> TRUE, result |-> "true"]

\* rm(authToken, entryID), lines 211-220
rmResult(result) ==
    IF ~result.success THEN result
    ELSE [success |-> result.status = "200", error |-> UNDEFINED, session |-> TRUE,
          result |-> "true"]

rm(o) ==
    LET m == multipartMixed(o)
    IN IF m.thrown # "none" THEN m ELSE Delivered(rmResult(m.rec))

\* getFileSize(authToken, fileID), lines 368-386
getFileSize(o, size) == requestCallback(o, SessionExpiredNoSuccess, Succeeded(size))

\* login(username, password), lines 48-80: the value resolved, or the exception
login(o) ==
    IF o = "errNoResp" THEN Thrown("TypeError")       \* response is undefined
    ELSE IF o = "401" THEN Delivered("false")
    ELSE IF o = "errResp" THEN Delivered("false")
    ELSE Delivered("true")

-----------------------------------------------------------------------------
(* Environment *)

OpNames == {"listFiles", "createDirectory", "removeFile", "uploadFile", "downloadFile"}

\* actionName passed to retryLimited
actionName(name) ==
    CASE name = "listFiles" -> "list files"
      [] name = "createDirectory" -> "create new directory"
      [] name = "removeFile" -> "remove file"
      [] name = "uploadFile" -> "upload file"
      [] name = "downloadFile" -> "download file"

\* new Error(`tried to ${actionName} 10 times and failed`): the error and the action it names
RetryExhausted(name) ==
    [kind |-> "raised", val |-> UNDEFINED, error |-> "Error", action |-> actionName(name)]

\* ReferenceError: attempt is not defined
AttemptNotDefined ==
    [kind |-> "raised", val |-> UNDEFINED, error |-> "ReferenceError", action |-> "none"]

Returned(data) ==
    [kind |-> "returned", val |-> data, error |-> "none", action |-> "none"]

NoFile == -1                                \* fs.existsSync(filePath) is false
FileSizes == {0, 100, 20480, 20580}         \* sizes of local files to upload
RemoteSizes == {0, 2}                       \* sizes of remote files to download
Listings == {"[]", "entries"}               \* parsed listings: empty, non-empty

\* The remote's answers under remotePlan = k > 0: attempts before the k-th
\* meet a failure that is not a session expiry, the k-th is served.
PlanAllows(o, failures, served) ==
    \/ remotePlan = 0
    \/ invocations < remotePlan /\ o \in failures
    \/ invocations = remotePlan /\ o \in served
    \/ invocations > remotePlan

-----------------------------------------------------------------------------
(* Session authenticator, lines 481-488 and 48-80 *)

\* authenticate(username, password) called by the shell: the credentials are
\* cached, then the token exchange is requested.
Authenticate ==
    /\ pc = "idle"
    /\ \E c \in Credentials : creds' = c
    /\ pc' = "login"
    /\ loginCaller' = "shell"
    /\ authResult' = "none"
    /\ UNCHANGED <<envVars, tokens, stackVars, op, frames, opRes, callResult, crash,
                   authToken, subPath, netVars, countVars, xferVars>>
    /\ UNCHANGED <<treeVars, shellVars>>

\* The identity provider issues a token that differs from the stored one.
IssuedTokens == IdTokens \ {tokens}

\* The identity provider accepts only valid credentials.
LoginOutcomes ==
    IF creds \in ValidCredentials THEN {"ok", "errNoResp", "errResp"}
    ELSE {"401", "errNoResp", "errResp"}

\* authRetry, line 723: return func(...args).  Every retryable function passes
\* itself, except _uploadFile, which passes uploadFile: a new retryLimited.
Replay ==
    IF op.name = "uploadFile"
    THEN /\ Len(frames) < MaxNest
         /\ frames' = Append(frames, 0)
         /\ pc' = "callAbstracted"
    ELSE /\ frames' = frames
         /\ pc' = "invoke"

\* The callback of the token exchange, and what the awaiting caller does next.
LoginResponse ==
    /\ pc = "login"
    /\ \E o \in LoginOutcomes, t \in IssuedTokens :
        LET l == login(o) IN
        /\ net' = o
        /\ prim' = "login"
        /\ primRes' = NoRes
        /\ IF l.thrown # "none"
           THEN /\ pc' = "crashed"
                /\ crash' = l.thrown
                /\ UNCHANGED <<tokens, authResult, frames, loginCaller, granted>>
           ELSE /\ tokens' = IF l.rec = "true" THEN t ELSE tokens
                /\ granted' = IF loginCaller = "authRetry" THEN l.rec ELSE granted
                /\ crash' = crash
                /\ IF loginCaller = "shell"
                   THEN /\ authResult' = l.rec
                        /\ pc' = "done"
                        /\ frames' = frames
                   ELSE /\ authResult' = authResult
                        /\ Replay
                /\ loginCaller' = "none"
    /\ UNCHANGED <<envVars, creds, stackVars, op, opRes, callResult, authToken, subPath,
                   invocations, reauthed, expiredToken, authSince, pending401, xferVars>>
    /\ UNCHANGED <<treeVars, shellVars>>

-----------------------------------------------------------------------------
(* Retry / re-authentication supervisor, lines 697-724 *)

\* listFiles, createDirectory, removeFile, uploadFile, downloadFile:
\*   return await retryLimited(10, actionName, abstractedFunction, afArgs)
CallOperation ==
    /\ pc = "idle"
    /\ \E name \in OpNames, file \in FileSizes \cup {NoFile}, plan \in 0..tryLimit,
          body \in ListBodies \cup {NoBody} :
        /\ (name # "uploadFile") => file = 0
        /\ (plan > 0) => file # NoFile
        /\ (name = "listFiles") <=> (body # NoBody)
        /\ op' = [name |-> name, file |-> file]
        /\ remotePlan' = plan
        /\ folderBody' = body
    /\ frames' = <<0>>                      \* let tryCounter = 0
    /\ pc' = "callAbstracted"
    /\ UNCHANGED <<attemptBound, sessionVars, stackVars, opRes, callResult, crash,
                   loginCaller, authResult, authToken, subPath, netVars, countVars, xferVars>>
    /\ UNCHANGED <<treeVars, shellVars>>

\* The awaiting caller has the value or the error of the call; the next
\* command starts from the module's state alone.
Complete ==
    /\ pc = "done"
    /\ pc' = "idle"
    /\ op' = NoOp
    /\ remotePlan' = 0
    /\ folderBody' = NoBody
    /\ opRes' = NoRes
    /\ callResult' = NoResult
    /\ authResult' = "none"
    /\ authToken' = NoToken
    /\ subPath' = "none"
    /\ net' = "none"
    /\ prim' = "none"
    /\ primRes' = NoRes
    /\ invocations' = 0
    /\ reauthed' = FALSE
    /\ expiredToken' = NoToken
    /\ granted' = "none"
    /\ authSince' = 0
    /\ pending401' = FALSE
    /\ uplOffset' = 0
    /\ uplPuts' = 0
    /\ uplOk' = 0
    /\ uplDone' = 0
    /\ uplEvents' = 0
    /\ uplLastEvent' = NoEvent
    /\ uplFds' = 0
    /\ uplLog' = <<>>
    /\ dwlTotal' = 0
    /\ dwlOffset' = 0
    /\ dstLen' = 0
    /\ dstExists' = FALSE
    /\ dstEarlier' = 0
    /\ dwlEvents' = 0
    /\ dwlLastEvent' = NoEvent
    /\ stale' = 0
    /\ UNCHANGED <<attemptBound, sessionVars, stackVars, frames, crash, loginCaller>>
    /\ UNCHANGED <<treeVars, shellVars>>

tryCounter == frames[Len(frames)]

\* retryLimited throws: to the API caller from the outermost activation; from a
\* nested one (uploadFile called by authRetry inside the upload's completion
\* callback) the rejection is unhandled and the outer promise is never settled.
Throw(e) ==
    IF Len(frames) = 1
    THEN /\ callResult' = e
         /\ pc' = "done"
         /\ frames' = <<>>
         /\ UNCHANGED <<opRes, crash>>
    ELSE /\ pc' = "hung"
         /\ crash' \in {"none", "UnhandledRejection"}
         /\ UNCHANGED <<callResult, frames, opRes>>

\* retryLimited returns recursiveResult.data: to the API caller from the
\* outermost activation; from a nested one the value is what the outer
\* _uploadFile resolves with (line 642: resolve(result)).
Return(data) ==
    IF Len(frames) = 1
    THEN /\ callResult' = Returned(data)
         /\ pc' = "done"
         /\ frames' = <<>>
         /\ UNCHANGED <<opRes, crash>>
    ELSE /\ frames' = SubSeq(frames, 1, Len(frames) - 1)
         /\ opRes' = [raw |-> data]
         /\ pc' = "opReturn"
         /\ UNCHANGED <<callResult, crash>>

\* if (tryCounter > tryLimit), line 700
limitReached(counter) == counter > tryLimit

\* callAbstracted, lines 700-705, up to the call of abstractedFunction
CallAbstracted ==
    /\ pc = "callAbstracted"
    /\ IF limitReached(tryCounter)
       THEN Throw(RetryExhausted(op.name))     \* return { success: false }, line 712
       ELSE IF ~attemptBound
       THEN Throw(AttemptNotDefined)           \* line 704, after tryCounter++
       ELSE /\ frames' = [frames EXCEPT ![Len(frames)] = tryCounter + 1]
            /\ pc' = "invoke"
            /\ UNCHANGED <<callResult, opRes, crash>>
    /\ UNCHANGED <<envVars, sessionVars, stackVars, op, loginCaller, authResult, authToken, subPath,
                   netVars, countVars, xferVars>>
    /\ UNCHANGED <<treeVars, shellVars>>

\* callAbstracted, lines 706-707, and retryLimited, lines 710-711
CallAbstractedResume ==
    /\ pc = "opReturn"
    /\ IF ~Success(opRes)
       THEN /\ pc' = "callAbstracted"
            /\ UNCHANGED <<callResult, frames, opRes, crash>>
       ELSE Return(opRes.data)
    /\ UNCHANGED <<envVars, sessionVars, stackVars, op, loginCaller, authResult, authToken, subPath,
                   netVars, countVars, xferVars>>
    /\ UNCHANGED <<treeVars, shellVars>>

\* The test every retryable function applies to its primitive's record
\* (lines 509-520, 546-557, 580-591, 633-644, 676-687).
\* if (result.error) ... else: session timed out
needsReauth(r) == r.error = UNDEFINED

Deliver(r) ==
    IF Success(r)
    THEN /\ opRes' = [success |-> TRUE, data |-> r.result]
         /\ pc' = "opReturn"
         /\ UNCHANGED <<loginCaller, reauthed, expiredToken, granted, authSince>>
    ELSE IF ~needsReauth(r)
    THEN /\ opRes' = [success |-> FALSE]
         /\ pc' = "opReturn"
         /\ UNCHANGED <<loginCaller, reauthed, expiredToken, granted, authSince>>
    ELSE \* authRetry: authenticate(creds.user, creds.pass) requests the token exchange
         /\ pc' = "login"
         /\ loginCaller' = "authRetry"
         /\ reauthed' = TRUE
         /\ expiredToken' = authToken
         /\ granted' = "none"
         /\ authSince' = authSince + 1
         /\ opRes' = opRes

\* A primitive's callback ran: it delivered a record to the retryable function,
\* or threw.
Respond(p, o, d) ==
    /\ net' = o
    /\ prim' = p
    /\ IF d.thrown # "none"
       THEN /\ pc' = "crashed"
            /\ crash' = d.thrown
            /\ primRes' = NoRes
            /\ UNCHANGED <<opRes, loginCaller, reauthed, expiredToken, granted, authSince, pending401>>
       ELSE /\ primRes' = d.rec
            /\ crash' = crash
            /\ pending401' = (pending401 \/ o = "401")
            /\ Deliver(d.rec)

-----------------------------------------------------------------------------
(* The retryable functions and the callbacks of their primitives *)

\* What every response handler below leaves alone besides what Respond sets.
respondFrame == <<envVars, sessionVars, stackVars, op, frames, callResult, authResult,
                  authToken, subPath, invocations>>

\* An activation that goes on with the token the activation before it carried
tokensAuthCaptured(stored, carried) == IF carried # NoToken THEN carried ELSE stored

\* tokens.auth, read by every activation when it calls its primitive
\* (lines 507, 545, 579, 623, 670)
tokensAuth(stored, carried) == stored

\* _listFiles, _createDirectory, _removeFile, _uploadFile, _downloadFile up to
\* their first request: the current folder and token are read again.
Invoke ==
    /\ pc = "invoke"
    /\ invocations < MaxInvocations
    /\ invocations' = invocations + 1
    /\ authSince' = 0
    /\ pending401' = FALSE
    /\ authToken' = tokensAuth(tokens, authToken)
    /\ subPath' = currentPath(pathStack)
    /\ uplOffset' = 0
    /\ uplPuts' = 0
    /\ uplOk' = 0
    /\ uplDone' = 0
    /\ uplEvents' = 0
    /\ uplFds' = 0
    /\ uplLog' = <<>>
    /\ dwlOffset' = 0
    /\ dwlTotal' = 0
    /\ dwlEvents' = 0
    /\ dwlLastEvent' = NoEvent
    /\ dstEarlier' = dstLen
    /\ IF op.name = "uploadFile" /\ op.file = NoFile
       THEN /\ opRes' = [success |-> FALSE]    \* lines 616-619
            /\ pc' = "opReturn"
       ELSE /\ opRes' = opRes
            /\ pc' = CASE op.name = "listFiles" -> "ls"
                       [] op.name = "createDirectory" -> "mkdir"
                       [] op.name = "removeFile" -> "rm"
                       [] op.name = "uploadFile" -> "activityStart"
                       [] op.name = "downloadFile" -> "getFileSize"
    /\ UNCHANGED <<envVars, sessionVars, stackVars, op, frames, callResult, crash,
                   loginCaller, authResult, netVars, reauthed, expiredToken, granted, uplLastEvent, dstLen, dstExists,
                   stale>>
    /\ UNCHANGED <<treeVars, shellVars>>

TransportFailures == {"errNoResp", "errResp"}

\* _listFiles, lines 507-520
LsResponse ==
    /\ pc = "ls"
    /\ \E o \in RequestOutcomes :
        /\ PlanAllows(o, TransportFailures, {"ok"})
        /\ Respond("ls", o, ls(o, folderBody))
    /\ UNCHANGED <<respondFrame, xferVars>>
    /\ UNCHANGED <<treeVars, shellVars>>

\* _createDirectory, lines 545-557
MkdirResponse ==
    /\ pc = "mkdir"
    /\ \E o \in RequestOutcomes, newId \in FolderIds :
        /\ PlanAllows(o, TransportFailures, {"ok"})
        /\ Respond("mkdir", o, mkdir(o, newId))
    /\ UNCHANGED <<respondFrame, xferVars>>
    /\ UNCHANGED <<treeVars, shellVars>>

\* _removeFile, lines 579-591
RmResponse ==
    /\ pc = "rm"
    /\ \E o \in BatchOutcomes :
        /\ PlanAllows(o, {"other", "streamError", "reqError"}, {"200"})
        /\ Respond("rm", o, rm(o))
    /\ UNCHANGED <<respondFrame, xferVars>>
    /\ UNCHANGED <<treeVars, shellVars>>

-----------------------------------------------------------------------------
(* Chunked upload, lines 246-361 *)

Min(a, b) == IF a < b THEN a ELSE b

\* A read that returns one byte less than the block holds
bytesReadShort(currentOffset, totalSize) == Min(bufferSize - 1, totalSize - currentOffset)

\* An end-of-file test that fires on full blocks
isDoneOnFullBlock(currentOffset, totalSize) ==
    Min(bufferSize, totalSize - currentOffset) = bufferSize

\* getFileContent: bytes read for the block at currentOffset, and isDone
bytesRead(currentOffset, totalSize) == Min(bufferSize, totalSize - currentOffset)

isDone(currentOffset, totalSize) == bytesRead(currentOffset, totalSize) # bufferSize

\* A PUT that sends the whole block buffer
sliceWholeBuffer(read) == bufferSize

\* buffer.slice(0, bytesRead), line 338: the length of the PUT's body
slice(read) == read

\* _uploadFile's progress callback, lines 623-630: the value the caller of
\* uploadFile receives, in whole percent
percentage(bytesWritten, totalSize) ==
    IF totalSize = 0 THEN 100 ELSE (bytesWritten * 100) \div totalSize

Continue == [thrown |-> "none", rec |-> [continue |-> TRUE]]

\* upl.startActivity callback, lines 284-298
startActivity(o) ==
    IF o = "errNoResp" THEN Thrown("TypeError")            \* response is undefined
    ELSE IF o = "401" THEN Thrown("ReferenceError")        \* resolve is not defined
    ELSE IF o = "errResp" THEN Delivered(Failed)
    ELSE Continue

\* upl.startUpload callback, lines 265-279
startUpload(o) == requestCallback(o, SessionExpired, Continue.rec)

\* uploadManual.uploadBytes callback, lines 338-351
uploadBytes(o) ==
    IF o = "errNoResp" THEN Thrown("TypeError")            \* response is undefined
    ELSE IF o = "401" THEN Delivered(SessionExpired)
    ELSE IF o = "errResp" THEN Thrown("ReferenceError")    \* reportDone is not defined
    ELSE Continue

\* uploadManual: the next turn of the for..of loop over getFileContent, which
\* either issues the PUT of the block at `offset` or finds the generator
\* finished; the loop then ends without calling doneCallback.
NextBlock(offset) ==
    /\ uplOffset' = offset
    /\ IF offset >= op.file
       THEN /\ pc' = "hung"
            /\ UNCHANGED <<uplPuts, uplDone, uplEvents, uplLastEvent, uplLog>>
       ELSE \* progressCallback(currentOffset), line 334, then uploadBytes()
            /\ uplEvents' = uplEvents + 1
            /\ uplLastEvent' = [offset |-> offset, percent |-> percentage(offset, op.file)]
            /\ uplPuts' = uplPuts + 1
            /\ uplDone' = uplDone + (IF isDone(offset, op.file) THEN 1 ELSE 0)
            \* body: buffer.slice(0, bytesRead), line 338
            /\ uplLog' = Append(uplLog, [offset |-> offset,
                                         len |-> slice(bytesRead(offset, op.file))])
            /\ pc' = "put"

\* A callback that neither threw nor reported completion
Proceed(p, o) ==
    /\ net' = o
    /\ prim' = p
    /\ primRes' = NoRes
    /\ UNCHANGED <<crash, opRes, loginCaller, reauthed, expiredToken, granted, authSince, pending401>>

ActivityStartResponse ==
    /\ pc = "activityStart"
    /\ \E o \in RequestOutcomes :
        /\ PlanAllows(o, TransportFailures, {"ok"})
        /\ IF startActivity(o) = Continue
           THEN Proceed("startActivity", o) /\ pc' = "resumable"
           ELSE Respond("startActivity", o, startActivity(o))
    /\ UNCHANGED <<respondFrame, xferVars>>
    /\ UNCHANGED <<treeVars, shellVars>>

ResumableResponse ==
    /\ pc = "resumable"
    /\ \E o \in RequestOutcomes :
        /\ PlanAllows(o, TransportFailures, {"ok"})
        /\ IF startUpload(o) = Continue
           THEN /\ Proceed("startUpload", o)
                /\ uplFds' = uplFds + 1      \* getFileContent: fs.openSync, line 312
                /\ NextBlock(0)
                /\ uplOk' = uplOk
           ELSE Respond("startUpload", o, startUpload(o)) /\ UNCHANGED uplVars
    /\ UNCHANGED <<respondFrame, dwlVars>>
    /\ UNCHANGED <<treeVars, shellVars>>

PutResponse ==
    /\ pc = "put"
    /\ \E o \in RequestOutcomes :
        /\ PlanAllows(o, TransportFailures, {"ok"})
        /\ IF uploadBytes(o) # Continue
           THEN Respond("uploadBytes", o, uploadBytes(o)) /\ UNCHANGED uplVars
           ELSE IF isDone(uplOffset, op.file)
           THEN Respond("uploadBytes", o, Delivered(Succeeded("true")))
                /\ uplOk' = uplOk + 1
                /\ UNCHANGED <<uplOffset, uplPuts, uplDone, uplEvents, uplLastEvent, uplFds, uplLog>>
           ELSE Proceed("uploadBytes", o)
                /\ uplOk' = uplOk + 1
                /\ uplFds' = uplFds
                /\ NextBlock(uplOffset + bytesRead(uplOffset, op.file))
    /\ UNCHANGED <<respondFrame, dwlVars>>
    /\ UNCHANGED <<treeVars, shellVars>>

-----------------------------------------------------------------------------
(* Download, lines 395-429 *)

MaxStale == 1     \* 401-answered download streams explored at a time
MaxDst == 4       \* longest destination file explored
ErrorBodyLen == 1 \* bytes in the body of a 401 answer

\* A write that replaces the content of the file
writeFileSync(fileLen, chunkLen) == chunkLen

\* fs.appendFileSync(localPath, chunk), line 422: the length of the file after
appendFileSync(fileLen, chunkLen) == fileLen + chunkLen

\* _downloadFile's progress callback, lines 670-675: the value the caller of
\* downloadFile receives, in whole percent
dwlPercentage(offset, total) ==
    IF total = 0 THEN 100 ELSE (offset * 100) \div total

\* dwl, lines 399-405
FileSizeResponse ==
    /\ pc = "getFileSize"
    /\ \E o \in RequestOutcomes, size \in RemoteSizes :
        LET d == getFileSize(o, size) IN
        /\ PlanAllows(o, TransportFailures, {"ok"})
        /\ IF d.thrown = "none" /\ Success(d.rec)
           THEN /\ Proceed("getFileSize", o)
                /\ dwlTotal' = d.rec.result
                /\ pc' = "dwlResponse"
           ELSE /\ Respond("getFileSize", o, d)
                /\ dwlTotal' = dwlTotal
    /\ UNCHANGED <<respondFrame, uplVars, dwlOffset, dstLen, stale, dwlObs>>
    /\ UNCHANGED <<treeVars, shellVars>>

\* req.on('response'), lines 408-412
DwlResponse ==
    /\ pc = "dwlResponse"
    /\ \E o \in {"ok", "401"} :
        /\ PlanAllows(o, {}, {"ok"})
        /\ IF o = "401"
           THEN /\ stale < MaxStale
                /\ Respond("dwl", o, Delivered(SessionExpiredNoSuccess))
                /\ stale' = stale + 1
           ELSE /\ Proceed("dwl", o)
                /\ pc' = "dwlStream"
                /\ stale' = stale
    /\ UNCHANGED <<respondFrame, uplVars, dwlTotal, dwlOffset, dstLen, dwlObs>>
    /\ UNCHANGED <<treeVars, shellVars>>

\* req.on('data'), lines 421-425
DwlData ==
    /\ pc = "dwlStream"
    /\ dwlOffset < dwlTotal
    /\ \E len \in 1..(dwlTotal - dwlOffset) :
        /\ dstLen + len <= MaxDst
        /\ dstLen' = appendFileSync(dstLen, len)
        /\ dstExists' = TRUE
        \* progressCallback({ offset: currentOffset, total: totalSize })
        /\ dwlEvents' = dwlEvents + 1
        /\ dwlLastEvent' = [offset |-> dwlOffset, percent |-> dwlPercentage(dwlOffset, dwlTotal)]
        /\ dwlOffset' = dwlOffset + len    \* currentOffset += chunk.length
    /\ UNCHANGED <<envVars, sessionVars, stackVars, ctlVars, netVars, countVars,
                   uplVars, dwlTotal, stale, dstEarlier>>
    /\ UNCHANGED <<treeVars, shellVars>>

\* req.on('end'), line 427
DwlEnd ==
    /\ pc = "dwlStream"
    /\ dwlOffset = dwlTotal
    /\ PlanAllows("ok", {}, {"ok"})
    /\ Respond("dwl", "ok", Delivered(Succeeded("true")))
    /\ UNCHANGED <<respondFrame, xferVars>>
    /\ UNCHANGED <<treeVars, shellVars>>

\* req.on('error'), lines 414-419: `response` is not in scope there
DwlError ==
    /\ pc \in {"dwlResponse", "dwlStream"}
    /\ PlanAllows("streamError", {"streamError"}, {})
    /\ Respond("dwl", "streamError", Thrown("ReferenceError"))
    /\ UNCHANGED <<respondFrame, xferVars>>
    /\ UNCHANGED <<treeVars, shellVars>>

\* The stream of a 401 answer stays subscribed: its body arrives as a data
\* event (lines 421-425) and its end event resolves an already settled promise.
\* The progress event of that data event belongs to the earlier attempt; it
\* is not one of dwlEvents, which counts the events of the current attempt.
StaleBody ==
    /\ stale > 0
    /\ pc # "crashed"
    /\ stale' = stale - 1
    /\ \/ UNCHANGED <<dstLen, dstExists, dstEarlier>>
       \/ /\ dstLen + ErrorBodyLen <= MaxDst
          /\ dstLen' = appendFileSync(dstLen, ErrorBodyLen)
          /\ dstExists' = TRUE
          /\ dstEarlier' = dstEarlier + ErrorBodyLen
    /\ UNCHANGED <<envVars, sessionVars, stackVars, ctlVars, netVars, countVars,
                   uplVars, dwlTotal, dwlOffset, dwlEvents, dwlLastEvent>>
    /\ UNCHANGED <<treeVars, shellVars>>

-----------------------------------------------------------------------------
(* Navigation by the shell between API calls *)

NavEnter ==
    /\ pc = "idle"
    /\ Len(pathStack) < MaxNav
    /\ \E id \in FolderIds : pathStack' = enterDirectory(pathStack, id)
    /\ UNCHANGED <<envVars, sessionVars, ctlVars, netVars, countVars, xferVars, hist, ret>>
    /\ UNCHANGED <<treeVars, shellVars>>

NavParent ==
    /\ pc = "idle"
    /\ pathStack' = enterParentDirectory(pathStack).stack
    /\ UNCHANGED <<envVars, sessionVars, ctlVars, netVars, countVars, xferVars, hist, ret>>
    /\ UNCHANGED <<treeVars, shellVars>>

Next ==
    \/ Authenticate
    \/ LoginResponse
    \/ CallOperation
    \/ Complete
    \/ CallAbstracted
    \/ CallAbstractedResume
    \/ Invoke
    \/ LsResponse
    \/ MkdirResponse
    \/ RmResponse
    \/ ActivityStartResponse
    \/ ResumableResponse
    \/ PutResponse
    \/ FileSizeResponse
    \/ DwlResponse
    \/ DwlData
    \/ DwlEnd
    \/ DwlError
    \/ StaleBody
    \/ NavEnter
    \/ NavParent

Spec == Init /\ [][Next]_vars

-----------------------------------------------------------------------------
(* Tree transfers of the shell, index.js lines 77-199.  Every engine call   *)
(* the shell awaits is one step here: it returns, raises, or never comes    *)
(* back (a hang, or an exception thrown in a network callback).             *)

\* The folders of the tree to transfer, local for an upload and remote for a
\* download, with their subfolders and files in the order fs.readdirSync or
\* listFiles gives them.  A folder's remote identifier is its name here.
TreeFolders == {"T", "A", "B", "C"}

Subfolders(n) ==
    CASE n = "T" -> <<"A", "B">>
      [] n = "A" -> <<"C">>
      [] OTHER -> <<>>

FilesOf(n) ==
    CASE n = "T" -> <<"t1">>
      [] n = "A" -> <<"a1">>
      [] n = "B" -> <<"b1">>
      [] OTHER -> <<>>

\* How an awaited engine call ends; without a binding for `attempt` every
\* supervised call raises (line 704 of the engine)
CallOutcomes == IF attemptBound THEN {"returned", "raised", "stopped"} ELSE {"raised"}

\* One activation of uploadFolder / downloadFolder: folders created (or, for a
\* download, 1 once the folder is listed), files transferred, subfolders done
Frame(n) == [node |-> n, made |-> 0, done |-> 0, rec |-> 0]

top == walk[Len(walk)]

\* One awaited engine call, with the path stack it ran on
Op(ev, name, at, o) ==
    [ev |-> ev, name |-> name, at |-> at, cwd |-> pathStack,
     parent |-> currentPath(pathStack), out |-> o]

\* What the transfer leaves alone
treeFrame == <<envVars, sessionVars, ctlVars, netVars, countVars, xferVars, shellVars, hist, ret>>

\* An uploadFolder that uploads the files before it creates the subfolders
uploadPhaseFilesFirst(f) ==
    IF f.done < Len(FilesOf(f.node)) THEN "files"
    ELSE IF f.made < Len(Subfolders(f.node)) THEN "folders"
    ELSE IF f.rec < Len(Subfolders(f.node)) THEN "recurse"
    ELSE "return"

\* uploadFolder, lines 105-129: the three loops in their order
uploadPhase(f) ==
    IF f.made < Len(Subfolders(f.node)) THEN "folders"
    ELSE IF f.done < Len(FilesOf(f.node)) THEN "files"
    ELSE IF f.rec < Len(Subfolders(f.node)) THEN "recurse"
    ELSE "return"

\* An upload loop without the try / catch around uploadFile
afterUploadUncaught(o) ==
    IF o = "stopped" THEN "stopped" ELSE IF o = "raised" THEN "rejected" ELSE "running"

\* lines 113-121: try { await bridge.uploadFile(...) } catch (error) { log }
afterUpload(o) == IF o = "stopped" THEN "stopped" ELSE "running"

\* An awaited call outside any try: lines 107, 135, 155
afterCall(o) ==
    IF o = "stopped" THEN "stopped" ELSE IF o = "raised" THEN "rejected" ELSE "running"

\* recursiveUploadFolders, lines 132-135, up to the await of createDirectory
RecursiveUploadFolders ==
    /\ pc = "idle"
    /\ tstate = "none"
    /\ troot' \in TreeFolders
    /\ tmode' = "upload"
    /\ tstate' = "running"
    /\ saved' = getCurrentFolder(pathStack)
    /\ before' = pathStack
    /\ walk' = <<>>
    /\ tlog' = <<>>
    /\ UNCHANGED <<treeFrame, pathStack>>

\* lines 135-137 and 80: the main directory is created and uploadFolder enters it
MainDirectoryCreated ==
    /\ tmode = "upload"
    /\ tstate = "running"
    /\ walk = <<>>
    /\ \E o \in CallOutcomes :
        /\ tlog' = Append(tlog, Op("mkdir", troot, "none", o))
        /\ tstate' = afterCall(o)
        /\ IF o = "returned"
           THEN /\ pathStack' = enterDirectory(pathStack, troot)
                /\ walk' = <<Frame(troot)>>
           ELSE UNCHANGED <<pathStack, walk>>
    /\ UNCHANGED <<treeFrame, tmode, troot, saved, before>>

\* lines 106-111: const directoryID = await bridge.createDirectory(folder)
UploadFolderCreateDirectory ==
    /\ tmode = "upload"
    /\ tstate = "running"
    /\ walk # <<>>
    /\ uploadPhase(top) = "folders"
    /\ \E o \in CallOutcomes :
        /\ tlog' = Append(tlog, Op("mkdir", Subfolders(top.node)[top.made + 1], top.node, o))
        /\ tstate' = afterCall(o)
        /\ IF o = "returned"
           THEN walk' = [walk EXCEPT ![Len(walk)].made = @ + 1]
           ELSE walk' = walk
    /\ UNCHANGED <<treeFrame, pathStack, tmode, troot, saved, before>>

\* lines 113-121: await bridge.uploadFile(...) inside try / catch
UploadFolderUploadFile ==
    /\ tmode = "upload"
    /\ tstate = "running"
    /\ walk # <<>>
    /\ uploadPhase(top) = "files"
    /\ \E o \in CallOutcomes :
        /\ tlog' = Append(tlog, Op("upload", FilesOf(top.node)[top.done + 1], top.node, o))
        /\ tstate' = afterUpload(o)
        /\ IF o = "stopped"
           THEN walk' = walk
           ELSE walk' = [walk EXCEPT ![Len(walk)].done = @ + 1]
    /\ UNCHANGED <<treeFrame, pathStack, tmode, troot, saved, before>>

\* lines 124-126 and 80: uploadFolder(child, idList[i]) enters the child
UploadFolderDescend ==
    /\ tmode = "upload"
    /\ tstate = "running"
    /\ walk # <<>>
    /\ uploadPhase(top) = "recurse"
    /\ LET child == Subfolders(top.node)[top.rec + 1]
       IN /\ pathStack' = enterDirectory(pathStack, child)
          /\ walk' = Append(walk, Frame(child))
    /\ UNCHANGED <<treeFrame, tmode, tstate, troot, saved, before, tlog>>

\* uploadFolder returns: to the loop of its parent, line 128, or to
\* recursiveUploadFolders, lines 138-139
UploadFolderReturn ==
    /\ tmode = "upload"
    /\ tstate = "running"
    /\ walk # <<>>
    /\ uploadPhase(top) = "return"
    /\ IF Len(walk) > 1
       THEN /\ walk' = [SubSeq(walk, 1, Len(walk) - 1) EXCEPT ![Len(walk) - 1].rec = @ + 1]
            /\ pathStack' = enterParentDirectory(pathStack).stack
            /\ tstate' = tstate
       ELSE /\ walk' = <<>>
            /\ pathStack' = enterDirectory(pathStack, saved)
            /\ tstate' = "finished"
    /\ UNCHANGED <<treeFrame, tmode, troot, saved, before, tlog>>

\* downloadFolder, lines 150-187: list, then the files, then the subfolders
downloadPhase(f) ==
    IF f.made = 0 THEN "list"
    ELSE IF f.done < Len(FilesOf(f.node)) THEN "files"
    ELSE IF f.rec < Len(Subfolders(f.node)) THEN "recurse"
    ELSE "return"

\* recursiveDownloadFolders, lines 191-197, and downloadFolder line 150, up to
\* the await of listFiles: the source folder is entered twice
RecursiveDownloadFolders ==
    /\ pc = "idle"
    /\ tstate = "none"
    /\ \E src \in TreeFolders :
        /\ troot' = src
        /\ pathStack' = enterDirectory(enterDirectory(pathStack, src), src)
        /\ walk' = <<Frame(src)>>
    /\ tmode' = "download"
    /\ tstate' = "running"
    /\ saved' = getCurrentFolder(pathStack)
    /\ before' = pathStack
    /\ tlog' = <<>>
    /\ UNCHANGED treeFrame

\* line 155: const entries = await bridge.listFiles(), outside any try
DownloadFolderListFiles ==
    /\ tmode = "download"
    /\ tstate = "running"
    /\ walk # <<>>
    /\ downloadPhase(top) = "list"
    /\ \E o \in CallOutcomes :
        /\ tlog' = Append(tlog, Op("list", top.node, top.node, o))
        /\ tstate' = afterCall(o)
        /\ IF o = "returned"
           THEN walk' = [walk EXCEPT ![Len(walk)].made = 1]
           ELSE walk' = walk
    /\ UNCHANGED <<treeFrame, pathStack, tmode, troot, saved, before>>

\* lines 172-181: await bridge.downloadFile(...) inside try / catch
DownloadFolderDownloadFile ==
    /\ tmode = "download"
    /\ tstate = "running"
    /\ walk # <<>>
    /\ downloadPhase(top) = "files"
    /\ \E o \in CallOutcomes :
        /\ tlog' = Append(tlog, Op("download", FilesOf(top.node)[top.done + 1], top.node, o))
        /\ tstate' = afterUpload(o)
        /\ IF o = "stopped"
           THEN walk' = walk
           ELSE walk' = [walk EXCEPT ![Len(walk)].done = @ + 1]
    /\ UNCHANGED <<treeFrame, pathStack, tmode, troot, saved, before>>

\* lines 184-187 and 150: downloadFolder(folder.id, ...) enters the subfolder
DownloadFolderDescend ==
    /\ tmode = "download"
    /\ tstate = "running"
    /\ walk # <<>>
    /\ downloadPhase(top) = "recurse"
    /\ LET child == Subfolders(top.node)[top.rec + 1]
       IN /\ pathStack' = enterDirectory(pathStack, child)
          /\ walk' = Append(walk, Frame(child))
    /\ UNCHANGED <<treeFrame, tmode, tstate, troot, saved, before, tlog>>

\* downloadFolder returns: to the loop of its parent, lines 184-187, which
\* leaves the stack as it is, or to recursiveDownloadFolders, line 198
DownloadFolderReturn ==
    /\ tmode = "download"
    /\ tstate = "running"
    /\ walk # <<>>
    /\ downloadPhase(top) = "return"
    /\ IF Len(walk) > 1
       THEN /\ walk' = [SubSeq(walk, 1, Len(walk) - 1) EXCEPT ![Len(walk) - 1].rec = @ + 1]
            /\ pathStack' = pathStack
            /\ tstate' = tstate
       ELSE /\ walk' = <<>>
            /\ pathStack' = enterDirectory(pathStack, saved)
            /\ tstate' = "finished"
    /\ UNCHANGED <<treeFrame, tmode, troot, saved, before, tlog>>

\* The shell's cd before the transfer command
TreeNavEnter ==
    /\ tstate = "none"
    /\ NavEnter

NextTree ==
    \/ TreeNavEnter
    \/ RecursiveUploadFolders
    \/ MainDirectoryCreated
    \/ UploadFolderCreateDirectory
    \/ UploadFolderUploadFile
    \/ UploadFolderDescend
    \/ UploadFolderReturn
    \/ RecursiveDownloadFolders
    \/ DownloadFolderListFiles
    \/ DownloadFolderDownloadFile
    \/ DownloadFolderDescend
    \/ DownloadFolderReturn

SpecTree == Init /\ [][NextTree]_vars

-----------------------------------------------------------------------------
(* The identifier a history of path-stack calls leaves on top: scan the     *)
(* history backwards, cancelling each push against the pops that follow it. *)

Pops(c) ==
    IF c.call = "enterParent" THEN 1
    ELSE IF c.call = "truncate" THEN c.n
    ELSE 0

IsPush(c) == c.call = "enter" /\ c.id # UNDEFINED

RECURSIVE LastUnpopped(_, _, _)
LastUnpopped(h, i, skip) ==
    IF i = 0 THEN "none"
    ELSE IF IsPush(h[i])
         THEN IF skip > 0 THEN LastUnpopped(h, i - 1, skip - 1) ELSE h[i].id
         ELSE LastUnpopped(h, i - 1, skip + Pops(h[i]))

Expected(h) == LastUnpopped(h, Len(h), 0)

LastCall == hist[Len(hist)]

Called(call) == hist # <<>> /\ LastCall.call = call

\* C11: enter(id) appends id on top of the path stack and changes nothing
\* else, and does nothing when id is undefined; enterParent() removes exactly
\* the top entry and returns true on a non-empty stack, and returns false
\* leaving the stack as it was on an empty one.
C11_EnterAndEnterParentFrame ==
    [][(Len(hist') = Len(hist) + 1) =>
          /\ Called("enter")' =>
                /\ LastCall'.id # UNDEFINED =>
                      /\ Len(pathStack') = Len(pathStack) + 1
                      /\ pathStack'[Len(pathStack')] = LastCall'.id
                      /\ \A i \in 1..Len(pathStack) : pathStack'[i] = pathStack[i]
                /\ LastCall'.id = UNDEFINED => pathStack' = pathStack
                /\ UNCHANGED <<envVars, sessionVars, ctlVars, netVars, countVars, xferVars>>
          /\ Called("enterParent")' =>
                /\ pathStack # <<>> =>
                      /\ ret' = "true"
                      /\ Len(pathStack') = Len(pathStack) - 1
                      /\ \A i \in 1..Len(pathStack') : pathStack'[i] = pathStack[i]
                /\ pathStack = <<>> => (ret' = "false" /\ pathStack' = <<>>)
                /\ UNCHANGED <<envVars, sessionVars, ctlVars, netVars, countVars, xferVars>>
      ]_vars

\* enter(undefined), enter f1, enterParent, enterParent: the last one finds
\* the stack empty and returns false
C11_Witness ==
    /\ Len(hist) = 4
    /\ hist[1].call = "enter" /\ hist[1].id = UNDEFINED
    /\ hist[2].call = "enter" /\ hist[2].id = "f1"
    /\ hist[3].call = "enterParent"
    /\ hist[4].call = "enterParent"
    /\ ret = "false"
    /\ pathStack = <<>>

MinOf(a, b) == IF a < b THEN a ELSE b

\* C12: truncate(n) on a stack of depth d removes exactly min(n, d) entries
\* from the top and leaves the d - min(n, d) bottom entries as they were, in
\* order, also when n > d.
C12_TruncateRemovesMin ==
    [][(Len(hist') = Len(hist) + 1 /\ Called("truncate")') =>
          /\ Len(pathStack') = Len(pathStack) - MinOf(LastCall'.n, Len(pathStack))
          /\ \A i \in 1..Len(pathStack') : pathStack'[i] = pathStack[i]
      ]_vars

\* enter f1, enter f2, truncate(1), truncate(2): the first leaves [f1], the
\* second asks for more entries than the stack holds and leaves it empty
C12_Witness ==
    /\ Len(hist) = 4
    /\ hist[1].call = "enter" /\ hist[1].id = "f1"
    /\ hist[2].call = "enter" /\ hist[2].id = "f2"
    /\ hist[3].call = "truncate" /\ hist[3].n = 1
    /\ hist[4].call = "truncate" /\ hist[4].n = 2
    /\ pathStack = <<>>

\* C13: after a caller returned to the root folder the path stack is exactly
\* [root], whatever it held before.
C13_ResetLeavesOnlyRoot ==
    (Called("enter") /\ LastCall.id = "root") => pathStack = <<"root">>

-----------------------------------------------------------------------------
(* Supervisor and session claims *)

\* C1: when every attempt fails with a failure that is not a session expiry,
\* the wrapped operation is invoked at most 10 times, and the error raised
\* after the attempts names the action.
C1_AtMostTenInvocations ==
    /\ ~reauthed => invocations <= tryLimit
    /\ (pc = "done" /\ callResult.kind = "raised" /\ invocations > 0 /\ ~reauthed) =>
            callResult.action = actionName(op.name)

\* C2: when the remote serves attempt k (1 <= k <= 10) after failing the
\* attempts before it, the call ends returning that attempt's data after
\* exactly k invocations, without raising.
C2_ReturnsOnFirstSuccess ==
    remotePlan \in 1..tryLimit =>
        /\ pc \notin {"crashed", "hung"}
        /\ pc = "done" => (callResult.kind = "returned" /\ invocations = remotePlan)

\* C3: after a primitive answered 401, exactly one re-authentication precedes
\* the next activation of the operation, and every activation is counted by
\* the try counter of the API call.
C3_ReplayConsumesSlot ==
    /\ (pc = "invoke" /\ pending401) => authSince = 1
    /\ frames # <<>> => invocations <= frames[1]

\* C4: session failures and other failures together never cause more than 10
\* activations of the operation in one API call.
C4_InvocationsBounded == invocations <= tryLimit

\* C5: re-authentication is initiated only after a primitive reported
\* session = false.
C5_ReauthOnlyOnSessionExpiry ==
    (pc = "login" /\ loginCaller = "authRetry") => ~primRes.session

\* C6: when the re-authentication fails, the operation is not replayed.
C6_NoReplayAfterFailedReauth ==
    ~(pc \in {"invoke", "callAbstracted"} /\ prim = "login" /\ net \in {"401", "errResp"})

\* C7: authenticate returns true exactly when the token exchange succeeded and
\* the token changes exactly then; a 401 or a transport error returns false,
\* raises nothing and leaves the token unchanged.
C7_AuthenticateResult ==
    [][(pc = "login" /\ loginCaller = "shell") =>
          /\ net' = "ok" => (authResult' = "true" /\ tokens' # tokens)
          /\ net' # "ok" => (authResult' = "false" /\ tokens' = tokens /\ crash' = "none")
      ]_vars

\* C8: a failed authenticate leaves the cached credentials as they were: those
\* of the last successful authentication, or none before the first one.
C8_FailedAuthKeepsCredentials ==
    (pc = "done" /\ authResult = "false") =>
        IF tokens = NoToken THEN creds = NoCreds ELSE creds \in ValidCredentials

\* C9: every primitive delivers a result record with a success tag for every
\* network outcome; none throws.
C9_PrimitivesAlwaysDeliver ==
    /\ pc # "crashed"
    /\ prim \notin {"none", "login"} => "success" \in DOMAIN primRes

-----------------------------------------------------------------------------
(* Chunked upload claims *)

\* The upload session of the current activation has been opened
SessionOpened == op.name = "uploadFile" /\ prim \in {"startUpload", "uploadBytes"} /\ net = "ok"

\* The last chunk PUT of the session was answered without error and
\* doneCallback reported success to _uploadFile
UploadCompleted ==
    /\ op.name = "uploadFile"
    /\ prim = "uploadBytes" /\ net = "ok"
    /\ pc = "opReturn" /\ Success(opRes)

\* C14: a zero-byte upload completes with success after exactly one progress
\* event, of value 100, and without any chunk PUT.
C14_ZeroByteUploadCompletes ==
    (SessionOpened /\ op.file = 0) =>
        /\ pc # "hung"
        /\ uplPuts = 0
        /\ uplEvents = 1
        /\ uplLastEvent.percent = 100

\* C15: an upload attempt whose session was opened never stays in the
\* streaming loop without a completion result, whatever the size of the
\* local file.
C15_UploadLeavesStreaming == SessionOpened => pc # "hung"

\* C16: the chunk PUT in flight carries done=true exactly when fewer bytes
\* than the block size remain to be read at its offset; at most one PUT of a
\* session carries done=true and no PUT follows it.
C16_DoneOnShortBlockOnly ==
    /\ uplDone <= 1
    /\ pc = "put" => (uplDone = 1 <=> op.file - uplOffset < bufferSize)

\* a 20580-byte file: two PUTs, the second one short and done=true, answered
C16_Witness ==
    /\ UploadCompleted
    /\ op.file = bufferSize + 100
    /\ uplPuts = 2
    /\ uplDone = 1

\* C17 (as stated): for a file larger than the chunk size, the progress events
\* the caller of uploadFile receives during the call never go down.
C17_ProgressNonDecreasingInCall ==
    [][(op.file > bufferSize /\ uplEvents' > 0 /\ uplEvents' # uplEvents
            /\ uplLastEvent # NoEvent) =>
          /\ uplLastEvent'.offset >= uplLastEvent.offset
          /\ uplLastEvent'.percent >= uplLastEvent.percent
      ]_vars

\* C17 (amended): for a file larger than the chunk size, the progress events
\* of one upload attempt never go down, and when the attempt completes the
\* last event's offset is the file size minus the size of the final short
\* chunk.
C17_ProgressNonDecreasingInSession ==
    [][op.file > bufferSize =>
          /\ (uplEvents' = uplEvents + 1 /\ uplEvents > 0) =>
                /\ uplLastEvent'.offset >= uplLastEvent.offset
                /\ uplLastEvent'.percent >= uplLastEvent.percent
          /\ UploadCompleted' =>
                uplLastEvent'.offset = op.file - (op.file % bufferSize)
      ]_vars

\* a 20580-byte file uploaded in one attempt: events at offsets 0 and 20480
C17_Witness ==
    /\ UploadCompleted
    /\ op.file = bufferSize + 100
    /\ uplEvents = 2
    /\ uplLastEvent.offset = bufferSize
    /\ invocations = 1

\* C18: at every moment the progress events emitted in an upload session are
\* at most as many as the chunk PUTs of the session that succeeded.
C18_ProgressAfterSuccessfulPut == uplEvents <= uplOk

\* C19: a chunk PUT that failed is followed by no other PUT of its session
\* and its failure reaches the supervisor; the first PUT of every session has
\* offset 0.
C19_PutFailureRestartsFromZero ==
    /\ (prim = "uploadBytes" /\ net # "ok") => pc \notin {"put", "crashed"}
    /\ (pc = "put" /\ uplPuts = 1) => uplOffset = 0

-----------------------------------------------------------------------------
(* Download claims *)

\* The stream of the current download attempt ended and dwl reported success
DownloadCompleted ==
    /\ op.name = "downloadFile"
    /\ prim = "dwl" /\ net = "ok"
    /\ pc = "opReturn" /\ Success(opRes)

\* C20: a download of a zero-byte remote file completes with success after
\* exactly one progress event, of value 100, and leaves an empty destination
\* file.
C20_ZeroByteDownload ==
    (DownloadCompleted /\ dwlTotal = 0 /\ invocations = 1) =>
        /\ dwlEvents = 1
        /\ dwlLastEvent.percent = 100
        /\ dstExists
        /\ dstLen = 0

\* C21: in a download attempt the last progress event carries the number of
\* bytes received so far in the attempt, the chunk it reports included; the
\* last event of a successful download of a non-empty file reports
\* offset = total, 100 percent.
C21_DownloadEventIncludesChunk ==
    /\ (op.name = "downloadFile" /\ pc = "dwlStream" /\ dwlEvents > 0) =>
            dwlLastEvent.offset = dwlOffset
    /\ (DownloadCompleted /\ dwlTotal > 0) =>
            (dwlLastEvent.offset = dwlTotal /\ dwlLastEvent.percent = 100)

-----------------------------------------------------------------------------
(* Listing and delete claims *)

\* C23: listing a folder with zero entries, whose answer has no files field,
\* on a remote that serves the request, returns the empty sequence to the
\* caller after one activation, without raising.
C23_EmptyFolderListsEmpty ==
    (op.name = "listFiles" /\ folderBody = "{}" /\ remotePlan = 1 /\ pc = "done") =>
        /\ callResult = Returned("[]")
        /\ invocations = 1

\* C30: rm reports success exactly when the status of the batch answer was
\* 200, and removeFile returns to its caller only after such an answer.
C30_RemoveSucceedsOnlyOn200 ==
    /\ (prim = "rm" /\ pc # "crashed") => (Success(primRes) <=> net = "200")
    /\ (op.name = "removeFile" /\ pc = "done" /\ callResult.kind = "returned") =>
            (prim = "rm" /\ net = "200")

\* a delete answered with another status first and with 200 on the replay
C30_Witness ==
    /\ op.name = "removeFile"
    /\ pc = "done"
    /\ callResult.kind = "returned"
    /\ invocations = 2
    /\ net = "200"

-----------------------------------------------------------------------------
(* Resource claims *)

\* Positions of the task at which a request of its own awaits its answer
RequestPending == {"login", "ls", "mkdir", "rm", "activityStart", "resumable", "put",
                   "getFileSize", "dwlResponse", "dwlStream"}

\* Network operations whose response stream has neither ended nor errored
inFlight == stale + (IF pc \in RequestPending THEN 1 ELSE 0)

\* C28: at every moment at most one network operation is in flight.
C28_OneRequestInFlight == inFlight <= 1

\* C29: no descriptor opened by the chunked upload is open when no upload
\* attempt is running.
C29_UploadHandlesClosed ==
    pc \in {"idle", "callAbstracted", "invoke", "opReturn", "login", "done"} => uplFds = 0

-----------------------------------------------------------------------------
(* Tree transfers: what the claims speak of *)

\* The folder that holds n in the tree, "none" for the top
ParentOf(n) ==
    IF \E p \in TreeFolders : \E i \in DOMAIN Subfolders(p) : Subfolders(p)[i] = n
    THEN CHOOSE p \in TreeFolders : \E i \in DOMAIN Subfolders(p) : Subfolders(p)[i] = n
    ELSE "none"

\* a lies below b
RECURSIVE IsInside(_, _)
IsInside(a, b) ==
    /\ a \in TreeFolders
    /\ (ParentOf(a) = b \/ IsInside(ParentOf(a), b))

\* The folders of the tree rooted at r
Inside(r) == {n \in TreeFolders : n = r \/ IsInside(n, r)}

SeqToSet(q) == {q[i] : i \in DOMAIN q}

WalkNodes == [i \in 1..Len(walk) |-> walk[i].node]

Logged(ev, name, outs) ==
    \E i \in DOMAIN tlog : tlog[i].ev = ev /\ tlog[i].name = name /\ tlog[i].out \in outs

UploadFinished == tmode = "upload" /\ tstate = "finished"

DownloadFinished == tmode = "download" /\ tstate = "finished"

\* C24: after a recursive folder download completes, the path stack is the
\* sequence it was before the call, for every starting position
C24_DownloadRestoresStack == DownloadFinished => pathStack = before

\* C25: after a recursive folder upload completes, the path stack is the
\* sequence it was before the call, for every starting position
C25_UploadRestoresStack == UploadFinished => pathStack = before

\* C26: in a recursive upload, at every level the subfolder creations come
\* before the file uploads, and both before any remote operation inside a
\* subfolder; every operation of a level runs with that level's folder on top
\* of the path stack, and while the walk runs the stack is the starting stack
\* followed by exactly the folders of the active walk, so a subfolder is
\* left before its next sibling is entered
C26_UploadLevelOrder ==
    tmode = "upload" =>
        /\ \A i, j \in DOMAIN tlog :
              (i < j /\ tlog[i].at = tlog[j].at) =>
                  ~(tlog[i].ev = "upload" /\ tlog[j].ev = "mkdir")
        /\ \A i, j \in DOMAIN tlog : i < j => ~IsInside(tlog[i].at, tlog[j].at)
        /\ \A i \in DOMAIN tlog :
              /\ tlog[i].at # "none" => tlog[i].parent = tlog[i].at
              /\ tlog[i].at = "none" => tlog[i].cwd = before
        /\ (tstate = "running" /\ walk # <<>>) => pathStack = before \o WalkNodes

C26_Witness ==
    /\ UploadFinished
    /\ troot = "T"
    /\ Len(tlog) = 7
    /\ \A i \in DOMAIN tlog : tlog[i].out = "returned"
    /\ tlog[4].ev = "upload" /\ tlog[5].ev = "mkdir" /\ tlog[5].at = "A"
    /\ tlog[7].at = "B" /\ tlog[7].cwd = before \o <<"T", "B">>

\* C27: in a recursive upload a file upload that raises does not end the
\* walk: only a failed folder creation rejects the transfer, and a finished
\* walk has created every folder of the tree and attempted every file
C27_FailedUploadDoesNotAbort ==
    tmode = "upload" =>
        /\ tstate = "rejected" =>
              (tlog[Len(tlog)].ev = "mkdir" /\ tlog[Len(tlog)].out = "raised")
        /\ (tlog # <<>> /\ tlog[Len(tlog)].ev = "upload" /\ tlog[Len(tlog)].out = "raised") =>
              tstate \in {"running", "finished"}
        /\ tstate = "finished" =>
              \A n \in Inside(troot) :
                  /\ Logged("mkdir", n, {"returned"})
                  /\ \A f \in SeqToSet(FilesOf(n)) : Logged("upload", f, {"returned", "raised"})

C27_Witness ==
    /\ UploadFinished
    /\ troot = "T"
    /\ Logged("upload", "t1", {"raised"})
    /\ Logged("upload", "a1", {"returned"})
    /\ Logged("upload", "b1", {"returned"})
    /\ \A n \in TreeFolders : Logged("mkdir", n, {"returned"})
    /\ Len(tlog) = 7

-----------------------------------------------------------------------------
(* Shell navigation *)

\* C33: after `cd /` a following parent step (`cd ../`: enterParentDirectory
\* for the segment '..', nothing for the empty segment) leaves the working
\* directory at root.
C33_ParentAfterRootStaysAtRoot ==
    (/\ Len(hist) >= 2
     /\ hist[Len(hist) - 1] = StackCall("enter", "root", 0)
     /\ Called("enterParent")) => currentPath(pathStack) = "root"

-----------------------------------------------------------------------------
(* Recursive download: the path stack during the walk *)

\* The chain of folders from r down to n, for n in the tree rooted at r
RECURSIVE Chain(_, _)
Chain(r, n) == IF n = r \/ n \notin TreeFolders THEN <<r>> ELSE Chain(r, ParentOf(n)) \o <<n>>

\* The depth of the tree rooted at r
TreeDepth(r) ==
    CHOOSE d \in 1..Cardinality(TreeFolders) :
        /\ \E n \in Inside(r) : Len(Chain(r, n)) = d
        /\ \A n \in Inside(r) : Len(Chain(r, n)) <= d

\* C37: during a recursive download the path stack is, at every listing, the
\* pre-call stack followed by exactly the chain of remote folders from the
\* downloaded root to the folder being listed, and its depth never exceeds
\* the pre-call depth plus the depth of the remote tree.
C37_DownloadStackIsChain ==
    tmode = "download" =>
        /\ \A i \in DOMAIN tlog :
              tlog[i].ev = "list" => tlog[i].cwd = before \o Chain(troot, tlog[i].name)
        /\ tstate = "running" => Len(pathStack) <= Len(before) + TreeDepth(troot)

-----------------------------------------------------------------------------
(* Recursive upload: the remote parent of what is created and uploaded *)

\* C36: in a recursive upload every file of a local directory is uploaded
\* with the remote folder created for that directory as its parent, every
\* subfolder of it is created with that same parent, and the main folder is
\* created in the folder that was current before the call; this also after
\* an upload in between has failed.
C36_ParentIsLevelFolder ==
    tmode = "upload" =>
        \A i \in DOMAIN tlog :
            /\ tlog[i].at \in TreeFolders => tlog[i].parent = tlog[i].at
            /\ tlog[i].at = "none" => tlog[i].parent = currentPath(before)

C36_Witness ==
    /\ UploadFinished
    /\ troot = "T"
    /\ before # <<>>
    /\ Logged("upload", "t1", {"raised"})
    /\ \E i, j \in DOMAIN tlog :
          /\ tlog[i].ev = "mkdir" /\ tlog[i].name = "C" /\ tlog[i].parent = "A"
          /\ tlog[j].ev = "upload" /\ tlog[j].name = "a1" /\ tlog[j].parent = "A"
          /\ tlog[j].out = "returned"

-----------------------------------------------------------------------------
(* Replay after re-authentication, chunk offsets, failed attempts *)

\* Requests a retryable function's primitive has pending
PrimitivePending == RequestPending \ {"login"}

\* C32: after a successful re-authentication every primitive call of the
\* replayed operation carries the token the module holds now, which is not
\* the token of the call that was answered 401, and the folder the replay
\* addresses is the current top of the path stack.
C32_ReplayCarriesNewToken ==
    (granted = "true" /\ pc \in PrimitivePending) =>
        /\ authToken = tokens
        /\ authToken # expiredToken
        /\ subPath = currentPath(pathStack)

C32_Witness ==
    /\ granted = "true"
    /\ op.name = "uploadFile"
    /\ pc = "put"
    /\ expiredToken # NoToken
    /\ authToken # expiredToken
    /\ pathStack # <<>>
    /\ subPath = pathStack[Len(pathStack)]

RECURSIVE SumLen(_, _)
SumLen(log, n) == IF n = 0 THEN 0 ELSE SumLen(log, n - 1) + log[n].len

\* C35: within one upload session the PUT offsets are 0, 20480, 40960, ...,
\* each PUT carries the bytes read for its block and no more, each offset is
\* the sum of the payload lengths of the earlier PUTs, and when the session
\* is done the payload lengths sum to the file size.
C35_PutOffsetsAndPayloads ==
    op.name = "uploadFile" =>
        /\ Len(uplLog) = uplPuts
        /\ \A i \in DOMAIN uplLog :
              /\ uplLog[i].offset = (i - 1) * bufferSize
              /\ uplLog[i].offset = SumLen(uplLog, i - 1)
              /\ uplLog[i].len > 0
              /\ uplLog[i].len <= bufferSize
              /\ uplLog[i].offset + uplLog[i].len <= op.file
        /\ UploadCompleted => SumLen(uplLog, Len(uplLog)) = op.file

C35_Witness ==
    /\ UploadCompleted
    /\ op.file = 20580
    /\ uplLog = <<[offset |-> 0, len |-> 20480], [offset |-> 20480, len |-> 100]>>

\* C38: the events of a download stream whose response was 401 change
\* neither the destination file nor anything else of the download.
C38_Stale401StreamIsInert ==
    [][(stale' < stale /\ op' = op) =>
          (dstLen' = dstLen /\ dstExists' = dstExists /\ callResult' = callResult)]_vars

\* C39: a failure at any stage of an upload attempt, 401 or transport error,
\* delivers a completion result to _uploadFile: the callback does not throw
\* and the attempt is not left unsettled.
C39_UploadFailureDelivered ==
    (/\ op.name = "uploadFile"
     /\ prim \in {"startActivity", "startUpload", "uploadBytes"}
     /\ net \in {"401", "errNoResp", "errResp"}) =>
        /\ pc \notin {"crashed", "hung"}
        /\ "success" \in DOMAIN primRes /\ ~primRes.success

-----------------------------------------------------------------------------
(* The command shell, index.js lines 28, 48-59 and 204-315.  The remote     *)
(* holds the folder T in root, A and B in T, C in A; a folder's identifier  *)
(* is its name.  An awaited engine call that raises ends handleCommands,    *)
(* which nothing catches (line 374).                                        *)

MaxShellDepth == 4     \* deepest path stack a command is started on, plus its pushes

\* The folder whose listing shows the folder n
RemoteParent(n) == IF ParentOf(n) = "none" THEN "root" ELSE ParentOf(n)

\* list.find(item => item.name == name && item.isDir) !== undefined, for the
\* listing of `folder`
Found(name, folder) == name \in TreeFolders /\ RemoteParent(name) = folder

\* Folder names the user types
SegNames == TreeFolders \cup {"missing"}

\* Paths with a '/', split at it (line 240)
CdPaths ==
    { <<"T", "A">>, <<"T", "missing">>, <<"missing", "T">>, <<"..", "missing">>,
      <<"", "T", "missing">>, <<"T", "missing", "B">>, <<"..", "">> }

\* What the shell's commands leave alone
shellFrame == <<envVars, sessionVars, ctlVars, netVars, countVars, xferVars, treeVars, hist, ret>>

\* seekAndEnter(folderName), lines 48-59, given how its listFiles ended
seekAndEnter(ps, cache, folderName, o) ==
    IF o # "returned" THEN [stack |-> ps, cache |-> cache, ret |-> "raised"]
    ELSE IF ~Found(folderName, currentPath(ps))
    THEN [stack |-> ps, cache |-> cache, ret |-> "false"]
    ELSE [stack |-> enterDirectory(ps, folderName), cache |-> "null", ret |-> "true"]

\* if (cwdCache === null) cwdCache = await bridge.listFiles(), lines 270, 297
fillCache(ps, cache) == IF cache = "null" THEN currentPath(ps) ELSE cache

\* ls, lines 222-225
ShellLs ==
    /\ shpc = "prompt"
    /\ \E o \in CallOutcomes :
        IF o = "returned"
        THEN cwdCache' = currentPath(pathStack) /\ shpc' = shpc
        ELSE cwdCache' = cwdCache /\ shpc' = "ended"
    /\ UNCHANGED <<shellFrame, pathStack, pathParts, iterator, cdStart, missed>>

\* cd /, line 229
ShellCdRoot ==
    /\ shpc = "prompt"
    /\ Len(pathStack) < MaxShellDepth
    /\ pathStack' = enterDirectory(pathStack, "root")
    /\ UNCHANGED <<shellFrame, shellVars>>

\* cd <name>, lines 230-238
ShellCdSingle ==
    /\ shpc = "prompt"
    /\ Len(pathStack) < MaxShellDepth
    /\ \E name \in SegNames, o \in CallOutcomes :
        IF cwdCache # "null"
        THEN /\ pathStack' = IF Found(name, cwdCache)
                             THEN enterDirectory(pathStack, name) ELSE pathStack
             /\ cwdCache' = "null"
             /\ shpc' = shpc
        ELSE LET r == seekAndEnter(pathStack, cwdCache, name, o)
             IN /\ pathStack' = r.stack
                /\ cwdCache' = r.cache
                /\ shpc' = IF r.ret = "raised" THEN "ended" ELSE shpc
    /\ UNCHANGED <<shellFrame, pathParts, iterator, cdStart, missed>>

\* cd <path with '/'>, lines 239-241: the path is split
ShellCdMulti ==
    /\ shpc = "prompt"
    /\ \E path \in CdPaths :
        /\ Len(pathStack) + Len(path) <= MaxShellDepth
        /\ pathParts' = path
    /\ iterator' = 0
    /\ cdStart' = pathStack
    /\ missed' = FALSE
    /\ shpc' = "cd"
    /\ UNCHANGED <<shellFrame, pathStack, cwdCache>>

\* One turn of the loop over pathParts, lines 242-255
ShellCdSegment ==
    /\ shpc = "cd"
    /\ LET currentFolder == pathParts[iterator + 1]
           last == iterator + 1 = Len(pathParts)
       IN IF currentFolder = ""
          THEN /\ pathStack' = IF iterator = 0
                               THEN enterDirectory(pathStack, "root") ELSE pathStack
               /\ shpc' = IF last THEN "prompt" ELSE shpc
               /\ UNCHANGED <<cwdCache, missed>>
          ELSE IF currentFolder = ".."
          THEN /\ pathStack' = enterParentDirectory(pathStack).stack
               /\ cwdCache' = "null"
               /\ shpc' = IF last THEN "prompt" ELSE shpc
               /\ missed' = missed
          ELSE \E o \in CallOutcomes :
               LET r == seekAndEnter(pathStack, cwdCache, currentFolder, o)
               IN /\ cwdCache' = r.cache
                  /\ missed' = (missed \/ r.ret = "false")
                  /\ pathStack' = IF r.ret = "false" /\ iterator > 0
                                  THEN removePathStackEntries(r.stack, iterator)
                                  ELSE r.stack
                  /\ shpc' = IF r.ret = "raised" THEN "ended"
                             ELSE IF last THEN "prompt" ELSE shpc
    /\ iterator' = iterator + 1
    /\ UNCHANGED <<shellFrame, pathParts, cdStart>>

\* rm <name>, lines 265-275: the name is looked up in cwdCache, and
\* removeFile is awaited outside any try when an entry has that name
ShellRm ==
    /\ shpc = "prompt"
    /\ \E o \in CallOutcomes, target \in BOOLEAN, removed \in CallOutcomes :
        IF cwdCache = "null" /\ o # "returned"
        THEN cwdCache' = cwdCache /\ shpc' = "ended"
        ELSE /\ cwdCache' = fillCache(pathStack, cwdCache)
             /\ shpc' = IF target /\ removed # "returned" THEN "ended" ELSE shpc
    /\ UNCHANGED <<shellFrame, pathStack, pathParts, iterator, cdStart, missed>>

\* upload <local folder>, lines 283-284: recursiveUploadFolders ran to its
\* end; the new main folder "U" and the saved folder stay on the stack
ShellUploadFolder ==
    /\ shpc = "prompt"
    /\ attemptBound
    /\ Len(pathStack) + 2 <= MaxShellDepth
    /\ pathStack' = enterDirectory(enterDirectory(pathStack, "U"), getCurrentFolder(pathStack))
    /\ UNCHANGED <<shellFrame, shellVars>>

\* download <name>, lines 292-315, for a file, or for a folder without
\* subfolders: recursiveDownloadFolders ran to its end
ShellDownload ==
    /\ shpc = "prompt"
    /\ Len(pathStack) + 3 <= MaxShellDepth
    /\ \E name \in SegNames \cup {"file"}, o \in CallOutcomes :
        /\ name \in TreeFolders => Subfolders(name) = <<>>
        /\ IF o # "returned"
           THEN /\ shpc' = "ended"
                /\ UNCHANGED <<cwdCache, pathStack>>
           ELSE /\ shpc' = shpc
                /\ cwdCache' = fillCache(pathStack, cwdCache)
                /\ pathStack' =
                      IF Found(name, fillCache(pathStack, cwdCache))
                      THEN enterDirectory(enterDirectory(enterDirectory(pathStack, name), name),
                                          getCurrentFolder(pathStack))
                      ELSE pathStack
    /\ UNCHANGED <<shellFrame, pathParts, iterator, cdStart, missed>>

NextShell ==
    \/ ShellLs
    \/ ShellCdRoot
    \/ ShellCdSingle
    \/ ShellCdMulti
    \/ ShellCdSegment
    \/ ShellRm
    \/ ShellUploadFolder
    \/ ShellDownload

SpecShell == Init /\ [][NextShell]_vars

\* C31: when a segment of a multi-segment cd is not found, the path stack is
\* from then on, and after the command, the stack the command started with.
C31_FailedCdRestoresStack == (shpc \in {"cd", "prompt"} /\ missed) => pathStack = cdStart

\* C34: whenever cwdCache is not null it is the listing of the folder that is
\* the remote working directory.
C34_CacheIsOfWorkingDirectory == cwdCache # "null" => cwdCache = currentPath(pathStack)

====
